---- MODULE Spec2Model ----
(***************************************************************************)
(* Lyric pipeline of han-eng-lyricvideo-maker:                             *)
(*   openai_handler.py  parse_lrc_and_translate, generate_srt_from_lrc,    *)
(*                      translate_lyrics, clean_translation,               *)
(*                      convert_timestamp, seconds_to_srt_timestamp        *)
(*   video_maker.py     parse_srt_file, make_lyric_video                   *)
(*                                                                         *)
(* Encoding.                                                               *)
(*  - A text is a sequence of one-character strings.  The alphabet is      *)
(*    " " (whitespace), "a" and "e" (ASCII letters), "." and QUOTE         *)
(*    (punctuation), "-" and HANGUL (one Hangul syllable, non-ASCII).      *)
(*    The two sentinel translations are one-token texts.                   *)
(*  - A timestamp text is the sequence of its ':'-separated fields, as     *)
(*    str.split(':') returns them; the empty string is <<"">>.             *)
(*  - A float is an integer number of milliseconds (1.0 is 1000); the      *)
(*    float nan is NaN.  Float arithmetic is exact in the model.           *)
(*  - A lyric file is a sequence of lines; a line either starts with '['   *)
(*    and contains ']' (br), or contains no bracket at all.                *)
(***************************************************************************)
EXTENDS Integers, Sequences, FiniteSets, TLC

\* ------------------------------------------------------------------ bounds
MaxLines == 3      \* lines in the lyric file
MaxResp == 1       \* lines in one response of the translation service
MaxDur == 2        \* audio lengths 2 s, 4 s, ..., 2 * MaxDur s

\* ------------------------------------------------------------ characters
SPC == " "
QUOTE == "'"
DOT == "."
HANGUL == "K"

\* the float nan; every other float of the model is >= 0
NaN == 0 - 1

\* Optional values: None, or Some(v)
None == [none |-> TRUE]
Some(v) == [none |-> FALSE, v |-> v]

\* default_duration=3.0 of generate_srt_from_lrc, in milliseconds
default_duration == 3000

\* ------------------------------------------------------------ str helpers
RECURSIVE lstrip(_)
lstrip(t) == IF t # <<>> /\ Head(t) = SPC THEN lstrip(Tail(t)) ELSE t

RECURSIVE rstrip(_)
rstrip(t) ==
    IF t # <<>> /\ t[Len(t)] = SPC THEN rstrip(SubSeq(t, 1, Len(t) - 1)) ELSE t

\* str.strip()
strip(t) == rstrip(lstrip(t))

\* float(field): the texts float() accepts, with their value
FloatTable ==
    [f \in {"00", "01", "01.00", "02.50", "nan"} |->
        CASE f = "00" -> 0
          [] f = "01" -> 1000
          [] f = "01.00" -> 1000
          [] f = "02.50" -> 2500
          [] f = "nan" -> NaN]

FloatOk(f) == f \in DOMAIN FloatTable

\* float multiplication by the integer 60 and float addition (nan absorbs)
FMul60(x) == IF x = NaN THEN NaN ELSE x * 60
FAdd(x, y) == IF x = NaN \/ y = NaN THEN NaN ELSE x + y
FSub(x, y) == IF x = NaN \/ y = NaN THEN NaN ELSE x - y

\* float '<' (false as soon as one side is nan)
ISLT(x, y) == x # NaN /\ y # NaN /\ x < y

\* ------------------------------------------------------ convert_timestamp
\* convert_timestamp without the minutes-to-seconds factor
convert_timestamp_no60(timestamp) ==
    IF Len(timestamp) = 2 /\ FloatOk(timestamp[1]) /\ FloatOk(timestamp[2])
    THEN FAdd(FloatTable[timestamp[1]], FloatTable[timestamp[2]])
    ELSE 0

\* minutes, seconds = timestamp.split(':'); float(minutes)*60+float(seconds);
\* any exception (wrong field count, float() failure) is caught: return 0
convert_timestamp(timestamp) ==
    IF Len(timestamp) = 2 /\ FloatOk(timestamp[1]) /\ FloatOk(timestamp[2])
    THEN FAdd(FMul60(FloatTable[timestamp[1]]), FloatTable[timestamp[2]])
    ELSE 0

\* f"[{timestamp}]": the first field gains '[', the last gains ']'
Bracketed(timestamp) ==
    [k \in DOMAIN timestamp |->
        (IF k = 1 THEN "[" ELSE "") \o timestamp[k]
            \o (IF k = Len(timestamp) THEN "]" ELSE "")]

\* ------------------------------------------------------ translate_lyrics
TranslationError == <<"Translation error">>
TranslationFailed == <<"Translation failed">>

\* is_english: every character is ASCII (or whitespace / listed punctuation)
is_english(text) == \A k \in DOMAIN text : text[k] # HANGUL

RECURSIVE DropLeading(_, _)
DropLeading(t, c) ==
    IF t # <<>> /\ Head(t) = c THEN DropLeading(Tail(t), c) ELSE t

RECURSIVE DropTrailing(_, _)
DropTrailing(t, c) ==
    IF t # <<>> /\ t[Len(t)] = c
    THEN DropTrailing(SubSeq(t, 1, Len(t) - 1), c) ELSE t

\* re.sub(r'^["\']+|["\']+$|\\"|\.+$', '', text): a leading quote run, then
\* either the trailing quote run or (when the text ends in '.') the trailing
\* dot run
StripQuotesDots(t) ==
    LET u == DropLeading(t, QUOTE)
    IN  IF u # <<>> /\ u[Len(u)] = QUOTE THEN DropTrailing(u, QUOTE)
        ELSE DropTrailing(u, DOT)

clean_translation(text) ==
    LET t == StripQuotesDots(strip(text))
    IN  IF \E k \in DOMAIN t : t[k] = HANGUL THEN TranslationError
        ELSE strip(t)

RECURSIVE CleanLines(_)
\* [clean_translation(line.strip()) for line in translations if line.strip()]
CleanLines(ls) ==
    IF ls = <<>> THEN <<>>
    ELSE (IF strip(Head(ls)) # <<>>
          THEN <<clean_translation(strip(Head(ls)))>> ELSE <<>>)
         \o CleanLines(Tail(ls))

\* What the external service did for one call: no call was needed
\* (short circuit), the call raised, or it answered with some lines.
NoCall == [kind |-> "nocall", lines |-> <<>>]
CallFailed == [kind |-> "failed", lines |-> <<>>]
Answer(ls) == [kind |-> "answer", lines |-> ls]

\* translate_lyrics without its except clause: a failed call propagates
translate_lyrics_reraise(lyrics, r) ==
    IF \A k \in DOMAIN lyrics : is_english(lyrics[k])
    THEN [raised |-> FALSE, value |-> lyrics]
    ELSE IF r.kind = "answer"
    THEN [raised |-> FALSE, value |-> CleanLines(r.lines)]
    ELSE [raised |-> TRUE, value |-> <<>>]

\* translate_lyrics(lyrics) under service behaviour r.  The result is
\* [raised, value]: the function's own try/except returns the input on any
\* exception, so raised is always FALSE.
translate_lyrics(lyrics, r) ==
    IF \A k \in DOMAIN lyrics : is_english(lyrics[k])
    THEN [raised |-> FALSE, value |-> lyrics]
    ELSE IF r.kind = "answer"
    THEN [raised |-> FALSE, value |-> CleanLines(r.lines)]
    ELSE [raised |-> FALSE, value |-> lyrics]

\* --------------------------------------------------------------- list.sort
\* lyrics_data.sort(key=lambda x: x['start_time']) on a short list (CPython:
\* count_run finds the leading run, a strictly descending run is reversed,
\* the rest is inserted by binary insertion; only '<' on keys is used)
RECURSIVE RunLen(_, _, _)
RunLen(s, k, desc) ==
    IF k > Len(s) THEN k - 1
    ELSE IF desc = ISLT(s[k].start_time, s[k - 1].start_time)
         THEN RunLen(s, k + 1, desc) ELSE k - 1

Reverse(s) == [k \in DOMAIN s |-> s[Len(s) + 1 - k]]

RECURSIVE BinPos(_, _, _, _)
\* binary search of the insertion point of pivot p in s[l+1 .. r]
BinPos(s, p, l, r) ==
    IF l >= r THEN l
    ELSE LET m == l + ((r - l) \div 2)
         IN  IF ISLT(p.start_time, s[m + 1].start_time)
             THEN BinPos(s, p, l, m) ELSE BinPos(s, p, m + 1, r)

RECURSIVE BinarySort(_, _)
\* s[1 .. start-1] is sorted; insert s[start], s[start+1], ...
BinarySort(s, start) ==
    IF start > Len(s) THEN s
    ELSE LET p == s[start]
             l == BinPos(s, p, 0, start - 1)
             t == SubSeq(s, 1, l) \o <<p>> \o SubSeq(s, l + 1, start - 1)
                    \o SubSeq(s, start + 1, Len(s))
         IN  BinarySort(t, start + 1)

ListSort(s) ==
    IF Len(s) < 2 THEN s
    ELSE LET desc == ISLT(s[2].start_time, s[1].start_time)
             n == RunLen(s, 3, desc)
             t == IF desc THEN Reverse(SubSeq(s, 1, n)) \o SubSeq(s, n + 1, Len(s))
                  ELSE s
         IN  BinarySort(t, n + 1)

\* ------------------------------------------------------------ input space
\* "00:01.00", "00:02.50", "01:01.00"
Ts1 == <<"00", "01.00">>
Ts2 == <<"00", "02.50">>
Ts3 == <<"01", "01.00">>

BracketLine(ts, raw) == [br |-> TRUE, ts |-> ts, raw |-> raw]
PlainLine(raw) == [br |-> FALSE, ts |-> <<"">>, raw |-> raw]

\* The lines a lyric file is made of:
\*   ""  "[00:01.00] "  "[00:01.00] K "  "[00:02.50]a"  "[01:01.00]e"
\*   "[bad]a"  "[nan:00]a"  "[]a"
LrcLines ==
    { PlainLine(<<>>),
      BracketLine(Ts1, <<SPC>>), BracketLine(Ts1, <<SPC, HANGUL, SPC>>),
      BracketLine(Ts2, <<"a">>), BracketLine(Ts3, <<"e">>),
      BracketLine(<<"bad">>, <<"a">>), BracketLine(<<"nan", "00">>, <<"a">>),
      BracketLine(<<"">>, <<"a">>) }

LrcFiles == UNION { [1..n -> LrcLines] : n \in 0..MaxLines }

\* the raw lines the translation service may answer with:
\*   ""  "e"  "'e'"  "K"  "."
ResponseLines ==
    { <<>>, <<"e">>, <<QUOTE, "e", QUOTE>>, <<HANGUL>>, <<DOT>> }

Responses ==
    {CallFailed} \cup
    { Answer(ls) : ls \in UNION { [1..n -> ResponseLines] : n \in 0..MaxResp } }

\* the behaviours of the service that matter for a call with these lyrics
ServiceFor(lyrics) ==
    IF \A k \in DOMAIN lyrics : is_english(lyrics[k]) THEN {NoCall}
    ELSE Responses

\* audio lengths, in milliseconds
Durations == { k * 2000 : k \in 1..MaxDur }

\* os.getenv('CURRENT_ARTIST', '아티스트'), os.getenv('CURRENT_TITLE', '제목'):
\* the environment is unset, both defaults are Hangul
artist == <<HANGUL>>
title == <<HANGUL>>

\* ------------------------------------------------------------------ state
VARIABLES
    pc,              \* position of the run
    lrc,             \* lines of the lyric file (lrc_filepath)
    modified_lrc,    \* parse_lrc_and_translate: lines after title injection
    i,               \* index of the loop in progress
    lyrics_data,     \* parse_lrc_and_translate: the list being collected
    calls,           \* log of the translate_lyrics calls of the run
    lyrics,          \* argument of the translate_lyrics call last made
    translated,      \* return value of the translate_lyrics call last made
    json_file,       \* content of json_filepath (None until written)
    duration,        \* make_lyric_video: audio.duration
    clips,           \* make_lyric_video: the clips built
    total_duration,  \* generate_srt_from_lrc: None or the audio length
    subtitles,       \* generate_srt_from_lrc: (timestamp, lyric) pairs
    srt_entries,     \* generate_srt_from_lrc: entries built
    srt_file,        \* content of srt_filepath (None until written)
    srt_records      \* parse_srt_file: its return value

vars == <<pc, lrc, modified_lrc, i, lyrics_data, calls, lyrics, translated,
          json_file, duration,
          clips, total_duration, subtitles, srt_entries, srt_file,
          srt_records>>

Init ==
    /\ pc = "start"
    /\ lrc \in LrcFiles
    /\ modified_lrc = <<>>
    /\ i = 0
    /\ lyrics_data = <<>>
    /\ calls = <<>>
    /\ lyrics = <<>>
    /\ translated = <<>>
    /\ json_file = None
    /\ duration = None
    /\ clips = <<>>
    /\ total_duration = None
    /\ subtitles = <<>>
    /\ srt_entries = <<>>
    /\ srt_file = None
    /\ srt_records = <<>>

\* ------------------------------------------------ parse_lrc_and_translate
RECURSIVE first_lyric_time(_, _)
\* the loop of lines 92-97: the time text of the first '[..]' line whose
\* time text is non-empty; cur is the value assigned so far
first_lyric_time(lines, cur) ==
    IF lines = <<>> THEN cur
    ELSE IF Head(lines).br
         THEN IF Head(lines).ts # <<"">> THEN Some(Head(lines).ts)
              ELSE first_lyric_time(Tail(lines), Some(<<"">>))
         ELSE first_lyric_time(Tail(lines), cur)

\* truthiness of first_lyric_time: neither None nor the empty string
Truthy(t) == t # None /\ t.v # <<"">>

\* f"[{first_lyric_time}]{artist} - {title}\n"
intro_lyric(t) == BracketLine(t, artist \o <<SPC, "-", SPC>> \o title)

\* lines 83-111: read the file, inject the title card, start the loop
LrcOpen ==
    /\ pc = "start"
    /\ LET t == first_lyric_time(lrc, None)
       IN  modified_lrc' = IF Truthy(t) THEN <<intro_lyric(t.v)>> \o lrc
                           ELSE lrc
    /\ lyrics_data' = <<>>
    /\ i' = 1
    /\ pc' = "lrc_loop"
    /\ UNCHANGED <<lrc, calls, lyrics, translated, json_file, duration, clips,
                   total_duration, subtitles, srt_entries, srt_file,
                   srt_records>>

\* lines 113-131: one iteration of the parse loop
LrcLine ==
    /\ pc = "lrc_loop"
    /\ i <= Len(modified_lrc)
    /\ LET line == modified_lrc[i]
           time_str == line.ts
           text == strip(line.raw)
       IN  IF line.br /\ text # <<>>
           THEN \E r \in ServiceFor(<<text>>) :
                  LET seconds == convert_timestamp(time_str)
                      ret == translate_lyrics(<<text>>, r)
                  IN  /\ lyrics' = <<text>>
                      /\ calls' = Append(calls,
                             [line |-> i, service |-> r.kind,
                              raised |-> ret.raised])
                      /\ IF ret.raised
                         THEN \* except Exception: print, continue
                              UNCHANGED <<translated, lyrics_data>>
                         ELSE /\ translated' = ret.value
                              /\ lyrics_data' = Append(lyrics_data,
                                     [start_time |-> seconds,
                                      original |-> text,
                                      english |->
                                         IF ret.value # <<>>
                                         THEN ret.value[1]
                                         ELSE TranslationFailed])
           ELSE UNCHANGED <<calls, lyrics, translated, lyrics_data>>
    /\ i' = i + 1
    /\ UNCHANGED <<pc, lrc, modified_lrc, json_file, duration, clips,
                   total_duration, subtitles, srt_entries, srt_file,
                   srt_records>>

\* lines 133-142: sort in place, dump to the JSON file, return
LrcFinish ==
    /\ pc = "lrc_loop"
    /\ i > Len(modified_lrc)
    /\ lyrics_data' = ListSort(lyrics_data)
    /\ json_file' = Some(ListSort(lyrics_data))
    /\ lyrics' = <<>>
    /\ translated' = <<>>
    /\ pc' = "json_written"
    /\ UNCHANGED <<lrc, modified_lrc, i, calls, duration, clips,
                   total_duration, subtitles, srt_entries, srt_file,
                   srt_records>>

\* ------------------------------------------------------- make_lyric_video
\* lines 104-119: the clip of entry k of the loaded list under duration d
ClipOf(data, k, d) ==
    LET start_time == data[k].start_time
        end_time == IF k < Len(data) THEN data[k + 1].start_time ELSE d
    IN  [start |-> start_time, end |-> end_time,
         duration |-> FSub(end_time, start_time)]

\* lines 82-143 on the JSON file written by parse_lrc_and_translate
MakeLyricVideo ==
    /\ pc = "json_written"
    /\ \E d \in Durations :
         /\ duration' = Some(d)
         /\ clips' = [k \in DOMAIN json_file.v |-> ClipOf(json_file.v, k, d)]
    /\ pc' = "video_done"
    /\ UNCHANGED <<lrc, modified_lrc, i, lyrics_data, calls, lyrics,
                   translated, json_file,
                   total_duration, subtitles, srt_entries, srt_file,
                   srt_records>>

\* -------------------------------------------------- generate_srt_from_lrc
\* A time value held by an entry is either a number (what convert_timestamp
\* returns) or an "HH:MM:SS,mmm" string (what seconds_to_srt_timestamp
\* returns).
Num(v) == [t |-> "num", v |-> v]

\* seconds_to_srt_timestamp, on milliseconds
seconds_to_srt_timestamp(seconds) ==
    [t |-> "str",
     hours |-> seconds \div 3600000,
     minutes |-> (seconds % 3600000) \div 60000,
     sec |-> (seconds % 60000) \div 1000,
     milliseconds |-> seconds % 1000,
     sep |-> ","]

\* re.compile(r"\[(\d{2}:\d{2}\.\d{2})\]\s*(.*)").match(line)
time_pattern_match(line) ==
    /\ line.br
    /\ Len(line.ts) = 2
    /\ line.ts[1] \in {"00", "01"}
    /\ line.ts[2] \in {"01.00", "02.50"}

RECURSIVE ParseSubtitles(_)
\* lines 175-185: strip the line, skip it when empty or when the pattern
\* does not match, else keep (timestamp, lyric)
ParseSubtitles(lines) ==
    IF lines = <<>> THEN <<>>
    ELSE LET line == Head(lines)
         IN  (IF ~line.br /\ strip(line.raw) = <<>> THEN <<>>
              ELSE IF time_pattern_match(line)
                   THEN <<[timestamp |-> line.ts, lyric |-> strip(line.raw)]>>
                   ELSE <<>>)
             \o ParseSubtitles(Tail(lines))

\* lines 161-185: measure the audio (when given), read and parse the file
SrtOpen ==
    /\ pc = "start"
    /\ total_duration' \in {None} \cup { Some(d) : d \in Durations }
    /\ subtitles' = ParseSubtitles(lrc)
    /\ srt_entries' = <<>>
    /\ i' = 1
    /\ pc' = "srt_loop"
    /\ UNCHANGED <<lrc, modified_lrc, lyrics_data, calls, lyrics, translated,
                   json_file, duration, clips, srt_file, srt_records>>

\* lines 189-202: start and end of entry k; raised when line 198 calls
\* .split on a start_time that is not a string
SrtTimes(k) ==
    LET start_time == Num(convert_timestamp(Bracketed(subtitles[k].timestamp)))
    IN  IF k < Len(subtitles)
        THEN [raised |-> FALSE, start |-> start_time,
              end |-> Num(convert_timestamp(
                            Bracketed(subtitles[k + 1].timestamp)))]
        ELSE IF total_duration # None
        THEN [raised |-> FALSE, start |-> start_time,
              end |-> seconds_to_srt_timestamp(total_duration.v)]
        ELSE IF start_time.t = "str"
        THEN LET total_sec == start_time.hours * 3600000
                                + start_time.minutes * 60000
                                + start_time.sec * 1000
                                + start_time.milliseconds
             IN  [raised |-> FALSE, start |-> start_time,
                  end |-> seconds_to_srt_timestamp(
                              total_sec + default_duration)]
        ELSE [raised |-> TRUE, start |-> start_time, end |-> start_time]

\* lines 188-214: one iteration of the entry loop
SrtEntry ==
    /\ pc = "srt_loop"
    /\ i <= Len(subtitles)
    /\ LET lyric == subtitles[i].lyric
           tm == SrtTimes(i)
       IN  IF tm.raised
           THEN /\ pc' = "srt_raised"
                /\ UNCHANGED <<i, calls, lyrics, translated, srt_entries>>
           ELSE \E r \in ServiceFor(<<lyric>>) :
                  LET ret == translate_lyrics(<<lyric>>, r)
                  IN  /\ lyrics' = <<lyric>>
                      /\ calls' = Append(calls,
                             [line |-> i, service |-> r.kind,
                              raised |-> ret.raised])
                      /\ IF ret.raised
                         THEN /\ pc' = "srt_raised"
                              /\ UNCHANGED <<i, translated, srt_entries>>
                         ELSE /\ translated' = ret.value
                              /\ srt_entries' = Append(srt_entries,
                                     [index |-> i,
                                      start |-> tm.start,
                                      end |-> tm.end,
                                      original |-> lyric,
                                      translated |->
                                         IF ret.value # <<>>
                                         THEN ret.value[1]
                                         ELSE TranslationFailed])
                              /\ i' = i + 1
                              /\ UNCHANGED pc
    /\ UNCHANGED <<lrc, modified_lrc, lyrics_data, json_file, duration, clips,
                   total_duration, subtitles, srt_file, srt_records>>

\* The subtitle file is a sequence of tokens: a newline, or one non-empty
\* piece of text written by one f-string field (an empty text writes none).
NL == [k |-> "nl"]
IndexTok(n) == [k |-> "index", index |-> n]
TimesTok(a, b) == [k |-> "times", start |-> a, end |-> b]
TextTok(t) == IF t = <<>> THEN <<>> ELSE <<[k |-> "text", text |-> t]>>

RECURSIVE Emit(_)
\* lines 217-222
Emit(entries) ==
    IF entries = <<>> THEN <<>>
    ELSE LET entry == Head(entries)
         IN  <<IndexTok(entry.index), NL>>
             \o <<TimesTok(entry.start, entry.end), NL>>
             \o TextTok(entry.original) \o <<NL>>
             \o TextTok(entry.translated) \o <<NL, NL>>
             \o Emit(Tail(entries))

\* lines 216-225: write the file, return
SrtWrite ==
    /\ pc = "srt_loop"
    /\ i > Len(subtitles)
    /\ srt_file' = Some(Emit(srt_entries))
    /\ lyrics' = <<>>
    /\ translated' = <<>>
    /\ pc' = "srt_written"
    /\ UNCHANGED <<lrc, modified_lrc, i, lyrics_data, calls, json_file,
                   duration, clips, total_duration, subtitles, srt_entries,
                   srt_records>>

\* ---------------------------------------------------------- parse_srt_file
\* content.strip(): text tokens carry no outer whitespace, so only newlines go
StripNL(c) == DropTrailing(DropLeading(c, NL), NL)

RECURSIVE SplitBlank(_, _)
\* str.split('\n\n'): left to right, non-overlapping; cur is the open piece
SplitBlank(c, cur) ==
    IF c = <<>> THEN <<cur>>
    ELSE IF Len(c) >= 2 /\ c[1] = NL /\ c[2] = NL
         THEN <<cur>> \o SplitBlank(SubSeq(c, 3, Len(c)), <<>>)
         ELSE SplitBlank(Tail(c), Append(cur, Head(c)))

RECURSIVE SplitLines(_, _)
\* str.split('\n')
SplitLines(c, cur) ==
    IF c = <<>> THEN <<cur>>
    ELSE IF Head(c) = NL THEN <<cur>> \o SplitLines(Tail(c), <<>>)
         ELSE SplitLines(Tail(c), Append(cur, Head(c)))

\* str.replace(',', '.') on a written time
ReplaceComma(tv) == IF tv.t = "str" THEN [tv EXCEPT !.sep = "."] ELSE tv

\* lines 68-78 for one segment: no record (fewer than 3 lines), a record, or
\* IndexError when the second line holds no ' --> '
SegmentRecord(segment) ==
    LET lines == SplitLines(segment, <<>>)
    IN  IF Len(lines) < 3 THEN [raised |-> FALSE, recs |-> <<>>]
        ELSE IF Len(lines[2]) = 1 /\ lines[2][1].k = "times"
        THEN [raised |-> FALSE,
              recs |-> <<[start |-> ReplaceComma(lines[2][1].start),
                          end |-> ReplaceComma(lines[2][1].end),
                          text |-> SubSeq(lines, 3, Len(lines))]>>]
        ELSE [raised |-> TRUE, recs |-> <<>>]

RECURSIVE ParseSegments(_)
ParseSegments(segments) ==
    IF segments = <<>> THEN [raised |-> FALSE, recs |-> <<>>]
    ELSE LET h == SegmentRecord(Head(segments))
             r == ParseSegments(Tail(segments))
         IN  IF h.raised THEN h
             ELSE [raised |-> r.raised, recs |-> h.recs \o r.recs]

\* lines 59-80 on the file written by generate_srt_from_lrc
ParseSrtFile ==
    /\ pc = "srt_written"
    /\ LET res == ParseSegments(SplitBlank(StripNL(srt_file.v), <<>>))
       IN  IF res.raised
           THEN /\ pc' = "parse_raised"
                /\ UNCHANGED srt_records
           ELSE /\ pc' = "srt_parsed"
                /\ srt_records' = res.recs
    /\ UNCHANGED <<lrc, modified_lrc, i, lyrics_data, calls, lyrics,
                   translated, json_file, duration, clips, total_duration,
                   subtitles, srt_entries, srt_file>>

Next ==
    \/ LrcOpen
    \/ LrcLine
    \/ LrcFinish
    \/ MakeLyricVideo
    \/ SrtOpen
    \/ SrtEntry
    \/ SrtWrite
    \/ ParseSrtFile

Spec == Init /\ [][Next]_vars

\* ----------------------------------------------------------------- claims
\* the chronological value, in milliseconds, of a time held by an entry
TimeValue(tv) ==
    IF tv.t = "num" THEN tv.v
    ELSE tv.hours * 3600000 + tv.minutes * 60000 + tv.sec * 1000
           + tv.milliseconds

\* the time a well-formed "MM:SS.ss" text denotes (its own parsed time)
OwnTime(ts) ==
    (CASE ts[1] = "00" -> 0 [] ts[1] = "01" -> 60000)
    + (CASE ts[2] = "01.00" -> 1000 [] ts[2] = "02.50" -> 2500)

WellFormed(ts) ==
    Len(ts) = 2 /\ ts[1] \in {"00", "01"} /\ ts[2] \in {"01.00", "02.50"}

\* a field float() accepts
Numeric(f) == f \in {"00", "01", "01.00", "02.50", "nan"}
TwoNumericFields(ts) == Len(ts) = 2 /\ Numeric(ts[1]) /\ Numeric(ts[2])

\* a line of a lyric file that is a lyric entry: bracket prefix, and text
\* that is non-empty after trimming
Kept(line) == line.br /\ strip(line.raw) # <<>>

RECURSIVE KeptLines(_)
KeptLines(lines) ==
    IF lines = <<>> THEN <<>>
    ELSE (IF Kept(Head(lines)) THEN <<Head(lines)>> ELSE <<>>)
         \o KeptLines(Tail(lines))

Last(s) == s[Len(s)]
Injected == Len(modified_lrc) = Len(lrc) + 1

\* C1: for every index k that is not the last, the end derived for entry k
\* is the time parsed from entry k+1's timestamp and the start recorded for
\* entry k is the time parsed from its own timestamp, in the subtitle
\* entries of generate_srt_from_lrc and in the clips of make_lyric_video.
C1_IntervalNonLast ==
    /\ \A k \in DOMAIN srt_entries :
         /\ srt_entries[k].start = Num(OwnTime(subtitles[k].timestamp))
         /\ k < Len(subtitles) =>
              srt_entries[k].end = Num(OwnTime(subtitles[k + 1].timestamp))
    /\ pc = "video_done" =>
         \A k \in DOMAIN clips :
           /\ clips[k].start = json_file.v[k].start_time
           /\ k < Len(clips) => clips[k].end = json_file.v[k + 1].start_time

\* C2: with three timestamps t1 < t2 < t3 and no total duration,
\* generate_srt_from_lrc completes and the last entry ends at
\* t3 + default_duration.
C2_LastEntryDefault ==
    (/\ pc \in {"srt_raised", "srt_written"}
     /\ total_duration = None
     /\ Len(subtitles) = 3
     /\ OwnTime(subtitles[1].timestamp) < OwnTime(subtitles[2].timestamp)
     /\ OwnTime(subtitles[2].timestamp) < OwnTime(subtitles[3].timestamp))
    => /\ pc = "srt_written"
       /\ Len(srt_entries) = 3
       /\ TimeValue(srt_entries[3].end)
            = OwnTime(subtitles[3].timestamp) + default_duration

\* C3: when the start times are non-decreasing, every derived entry has
\* end >= start, whatever the total duration is; every clip of
\* make_lyric_video has a non-negative duration.
C3_EndNotBeforeStart ==
    /\ \A k \in DOMAIN srt_entries :
         TimeValue(srt_entries[k].end) >= TimeValue(srt_entries[k].start)
    /\ (/\ pc = "video_done"
        /\ \A k \in DOMAIN json_file.v : json_file.v[k].start_time # NaN
        /\ \A j, k \in DOMAIN json_file.v :
             j < k => json_file.v[j].start_time <= json_file.v[k].start_time)
       => \A k \in DOMAIN clips :
            /\ clips[k].end >= clips[k].start
            /\ clips[k].duration >= 0

\* C4: translate_lyrics returns a sequence as long as its input, whatever
\* the service answers.
C4_SameLength == Len(translated) = Len(lyrics)

\* the line of call c has its entry in data, with english = original
FailedLineRecorded(c, data) ==
    LET text == strip(modified_lrc[c.line].raw)
    IN  \E k \in DOMAIN data :
          /\ data[k].original = text
          /\ data[k].english = text
          /\ data[k].start_time = convert_timestamp(modified_lrc[c.line].ts)

\* C5: when the external call fails, translate_lyrics raises nothing and
\* returns its input unchanged; parse_lrc_and_translate records that line
\* with english = original, goes on with the remaining lines (every kept
\* line read so far has its entry) and writes the output file with them.
C5_TranslationFailOpen ==
    /\ \A k \in DOMAIN calls : ~calls[k].raised
    /\ (pc \in {"lrc_loop", "srt_loop"} /\ calls # <<>>
          /\ Last(calls).service = "failed") => translated = lyrics
    /\ pc = "lrc_loop" =>
         /\ Len(lyrics_data)
              = Len(KeptLines(SubSeq(modified_lrc, 1, i - 1)))
         /\ \A k \in DOMAIN calls :
              calls[k].service = "failed"
                => FailedLineRecorded(calls[k], lyrics_data)
    /\ pc \in {"json_written", "video_done"} =>
         /\ json_file # None
         /\ Len(json_file.v) = Len(KeptLines(modified_lrc))
         /\ \A k \in DOMAIN calls :
              calls[k].service = "failed"
                => FailedLineRecorded(calls[k], json_file.v)

\* a lyric line (not the title card) failed to translate, a later line was
\* still recorded, and the file was written
C5_Witness ==
    /\ pc = "json_written"
    /\ \E k \in DOMAIN calls :
         /\ calls[k].service = "failed"
         /\ calls[k].line >= 2
         /\ \E j \in DOMAIN modified_lrc :
              j > calls[k].line /\ Kept(modified_lrc[j])

\* C6: an injected title card starts at the start time of the first line of
\* the file that is kept as a lyric entry, and the other entries have the
\* start, text and relative order they have without the injection.
C6_TitleCard ==
    /\ (pc = "lrc_loop" /\ Injected /\ i >= 2 /\ KeptLines(lrc) # <<>>) =>
         lyrics_data[1].start_time = convert_timestamp(KeptLines(lrc)[1].ts)
    /\ (/\ pc = "json_written"
        /\ Injected
        /\ \A k \in DOMAIN json_file.v : json_file.v[k].start_time # NaN) =>
         LET proj(e) == [start_time |-> e.start_time, original |-> e.original]
             IsCard(e) == e.original = modified_lrc[1].raw
             others == SelectSeq(json_file.v, LAMBDA e : ~IsCard(e))
             plain == ListSort([k \in DOMAIN KeptLines(lrc) |->
                         [start_time |->
                              convert_timestamp(KeptLines(lrc)[k].ts),
                          original |-> strip(KeptLines(lrc)[k].raw)]])
         IN  [k \in DOMAIN others |-> proj(others[k])] = plain

\* no entry is followed by one with a smaller start_time
NonDecreasing(data) ==
    \A j, k \in DOMAIN data :
      j < k => ~ISLT(data[k].start_time, data[j].start_time)

StablePermutation(before, after) ==
    /\ Len(after) = Len(before)
    /\ \E f \in [DOMAIN after -> DOMAIN before] :
         /\ \A j, k \in DOMAIN after : j # k => f[j] # f[k]
         /\ \A k \in DOMAIN after : after[k] = before[f[k]]
         /\ \A j, k \in DOMAIN after :
              (j < k /\ after[j].start_time = after[k].start_time)
                => f[j] < f[k]

\* C7: the list written by parse_lrc_and_translate is in non-decreasing
\* start_time order (no entry is followed by one with a smaller start_time),
\* equal start times keep their collection order, and the list holds
\* exactly the entries the parse loop collected.
C7_PersistedOrder ==
    [][(pc = "lrc_loop" /\ pc' = "json_written") =>
         /\ json_file' # None
         /\ NonDecreasing(json_file'.v)
         /\ StablePermutation(lyrics_data, json_file'.v)]_vars

\* C8: parse_srt_file on the file written by generate_srt_from_lrc returns
\* one record per emitted entry, in order, with the same start, end,
\* original text and translated text (times compared to the millisecond).
C8_RoundTrip ==
    pc \in {"srt_parsed", "parse_raised"} =>
      /\ pc = "srt_parsed"
      /\ Len(srt_records) = Len(srt_entries)
      /\ \A k \in DOMAIN srt_records :
           /\ TimeValue(srt_records[k].start) = TimeValue(srt_entries[k].start)
           /\ TimeValue(srt_records[k].end) = TimeValue(srt_entries[k].end)
           /\ srt_records[k].text
                = <<TextTok(srt_entries[k].original),
                    TextTok(srt_entries[k].translated)>>

\* C9: in both parse loops a line without a bracket-timestamp prefix gives
\* no entry, a line whose trimmed text is empty gives no entry, and the
\* entries produced carry the trimmed text, in file order.
C9_LineFiltering ==
    /\ pc = "lrc_loop" =>
         LET kept == KeptLines(SubSeq(modified_lrc, 1, i - 1))
         IN  [k \in DOMAIN lyrics_data |-> lyrics_data[k].original]
               = [k \in DOMAIN kept |-> strip(kept[k].raw)]
    /\ pc = "srt_loop" =>
         LET kept == SelectSeq(KeptLines(lrc),
                               LAMBDA l : time_pattern_match(l))
         IN  subtitles = [k \in DOMAIN kept |->
                            [timestamp |-> kept[k].ts,
                             lyric |-> strip(kept[k].raw)]]

====
